---- MODULE Spec2Model ----
(***************************************************************************)
(* A model of backend/main.py (src/app.py): a FastAPI gateway in front of  *)
(* an external store.  Every inbound request is one entry of `reqs`; the   *)
(* outbound HTTP calls a request issues are logged in `calls`.  A handler  *)
(* that forwards runs in two steps, split at its blocking requests.post /  *)
(* requests.get call, so that requests of different callers interleave.    *)
(*                                                                         *)
(* Prices and thresholds are floats in the code; the model takes them on   *)
(* an integer grid, on which < and > agree with the float comparisons.     *)
(* The server timestamp of a forwarded record is left out of the call      *)
(* record.  Polish diacritics of the detail strings are written in ASCII.  *)
(***************************************************************************)
EXTENDS Integers, Sequences, FiniteSets, TLC

VARIABLES reqs, calls

vars == <<reqs, calls>>

\* ---------------------------------------------------------------- bounds
\* Number of inbound requests of one behaviour.
MaxReq == 2
\* Prices are 100, 200, ..., 100 * MaxPriceStep.
MaxPriceStep == 7

\* ------------------------------------------------------ program constants
DefaultBuy == 200
DefaultSell == 600

\* ------------------------------------------------------------ input sets
Users == {"u1", "u2"}
NoSub == "none"

\* A value of the thresholds dict under one key: the key is absent, or it
\* holds a number, or it holds something that is not a number (the field is
\* declared `thresholds: dict`, so its values are not validated).
Absent == [kind |-> "absent", val |-> 0]
Num(n) == [kind |-> "num", val |-> n]
NonNum == [kind |-> "str", val |-> 0]
ThresholdValues == {Absent, Num(300), Num(500), NonNum}
Thresholds == [buy : ThresholdValues, sell : ThresholdValues]
NoThresholds == [buy |-> Absent, sell |-> Absent]
Prices == {100 * k : k \in 1..MaxPriceStep}

\* A request body.  `user_id` is an extra field a client may put into the
\* JSON body; `price` and `thresholds` matter to /analyze only.
NoBody == [valid |-> TRUE, user_id |-> NoSub, price |-> 0, thresholds |-> NoThresholds]
InvalidBody == [NoBody EXCEPT !.valid = FALSE]
AuthBodies == {NoBody, InvalidBody}
RecordBodies == {NoBody, [NoBody EXCEPT !.user_id = "u2"], InvalidBody}
AnalyzeBody(p, t) == [NoBody EXCEPT !.price = p, !.thresholds = t]
AnalyzeRequests == {AnalyzeBody(p, t) : p \in Prices, t \in Thresholds} \cup {InvalidBody}
AnalyzeSample ==
    {AnalyzeBody(p, t) : p \in {200, 700},
                         t \in {NoThresholds, [buy |-> Num(300), sell |-> Absent]}}

\* The Authorization header.  kind: "absent" (no bearer token), "malformed"
\* (not a JWT), "badsig" (signature does not verify), "expired" (signature
\* verifies, the registered claims do not validate), "good".
NoCreds == [kind |-> "absent", sub |-> NoSub]
Credentials ==
    { NoCreds,
      [kind |-> "malformed", sub |-> NoSub],
      [kind |-> "badsig", sub |-> "u1"],
      [kind |-> "expired", sub |-> NoSub],
      [kind |-> "good", sub |-> NoSub],
      [kind |-> "good", sub |-> "u1"],
      [kind |-> "good", sub |-> "u2"] }

\* What the external service answers: any status, with a JSON body or not.
JsonText == "{json}"
HtmlText == "<html>"
UpstreamReplies == [status : {200, 201, 502}, text : {JsonText, HtmlText}]
NoReply == [status |-> 0, text |-> ""]

\* ------------------------------------------------------------- responses
Response(code, body) == [status |-> code, body |-> body]
HTTPException(code, detail) == Response(code, <<"detail", detail>>)
InternalServerError == Response(500, <<"Internal Server Error">>)
ValidationError == Response(422, <<"detail", "validation">>)
NoResponse == Response(0, <<>>)

\* response.json(): the parsed body, or an exception when it is not JSON.
json(response) == [ok |-> response.text = JsonText, val |-> response.text]

\* dict.get(key, default)
Get(thresholds, key, default) ==
    IF thresholds[key].kind = "absent" THEN Num(default) ELSE thresholds[key]

\* ------------------------------------------- faulty classifiers (mutants)
Buy == Response(200, <<"action", "buy", "reason", "Cena ponizej progu zakupu">>)
Sell == Response(200, <<"action", "sell", "reason", "Cena powyzej progu sprzedazy">>)
Wait == Response(200, <<"action", "wait", "reason", "Cena neutralna">>)

\* The thresholds of the request are ignored: the defaults always apply.
analyze_price_defaults_only(data) ==
    IF data.price < DefaultBuy THEN Buy
    ELSE IF data.price > DefaultSell THEN Sell
    ELSE Wait

\* Inclusive comparisons: <= and >= for < and >.
analyze_price_inclusive(data) ==
    LET buy == Get(data.thresholds, "buy", DefaultBuy)
        sell == Get(data.thresholds, "sell", DefaultSell)
    IN  IF buy.kind # "num" THEN InternalServerError
        ELSE IF data.price <= buy.val THEN Buy
        ELSE IF sell.kind # "num" THEN InternalServerError
        ELSE IF data.price >= sell.val THEN Sell
        ELSE Wait

\* The neutral branch answers with the reason of the sell branch.
analyze_price_wrong_reason(data) ==
    LET buy == Get(data.thresholds, "buy", DefaultBuy)
        sell == Get(data.thresholds, "sell", DefaultSell)
    IN  IF buy.kind # "num" THEN InternalServerError
        ELSE IF data.price < buy.val THEN Buy
        ELSE IF sell.kind # "num" THEN InternalServerError
        ELSE IF data.price > sell.val THEN Sell
        ELSE Response(200, <<"action", "wait", "reason", "Cena powyzej progu sprzedazy">>)

\* The sell branch is tested before the buy branch.
analyze_price_sell_first(data) ==
    LET buy == Get(data.thresholds, "buy", DefaultBuy)
        sell == Get(data.thresholds, "sell", DefaultSell)
    IN  IF sell.kind # "num" THEN InternalServerError
        ELSE IF data.price > sell.val THEN Sell
        ELSE IF buy.kind # "num" THEN InternalServerError
        ELSE IF data.price < buy.val THEN Buy
        ELSE Wait

\* The classifier remembers that it advised to buy and does not advise it a
\* second time.
analyze_price_position(data) ==
    LET buy == Get(data.thresholds, "buy", DefaultBuy)
        sell == Get(data.thresholds, "sell", DefaultSell)
        bought == \E j \in 1..Len(reqs) : reqs[j].ep = "analyze" /\ reqs[j].resp = Buy
    IN  IF buy.kind # "num" THEN InternalServerError
        ELSE IF data.price < buy.val THEN (IF bought THEN Wait ELSE Buy)
        ELSE IF sell.kind # "num" THEN InternalServerError
        ELSE IF data.price > sell.val THEN Sell
        ELSE Wait

\* ------------------------------------------------------------ classifier
\* POST /analyze.  A comparison of the price with a value that is not a
\* number raises TypeError, which the framework answers with 500; the sell
\* threshold is looked at only when the buy branch is not taken.
analyze_price(data) ==
    LET buy == Get(data.thresholds, "buy", DefaultBuy)
        sell == Get(data.thresholds, "sell", DefaultSell)
    IN  IF buy.kind # "num" THEN InternalServerError
        ELSE IF data.price < buy.val
            THEN Response(200, <<"action", "buy", "reason", "Cena ponizej progu zakupu">>)
        ELSE IF sell.kind # "num" THEN InternalServerError
        ELSE IF data.price > sell.val
            THEN Response(200, <<"action", "sell", "reason", "Cena powyzej progu sprzedazy">>)
        ELSE Response(200, <<"action", "wait", "reason", "Cena neutralna">>)

\* ------------------------------------------ faulty authorization (mutants)
\* The claims are read without the signature being verified.
jwt_decode_unverified(token) ==
    IF token.kind \in {"good", "badsig"} THEN [ok |-> TRUE, sub |-> token.sub]
    ELSE [ok |-> FALSE, sub |-> NoSub]

\* `except Exception` for `except JWTError`: the 401 of the missing subject
\* is caught and raised again as the 403.
get_current_user_catch_all(credentials) ==
    IF credentials.kind = "absent"
    THEN [ok |-> FALSE, user_id |-> NoSub, error |-> HTTPException(403, "Not authenticated")]
    ELSE IF credentials.kind = "good" /\ credentials.sub # NoSub
    THEN [ok |-> TRUE, user_id |-> credentials.sub, error |-> NoResponse]
    ELSE [ok |-> FALSE, user_id |-> NoSub, error |-> HTTPException(403, "Blad autoryzacji")]

\* --------------------------------------------------------- authorization
\* jwt.decode(token, SUPABASE_JWT_SECRET, algorithms=["HS256"]): the payload,
\* or JWTError for a token that is malformed, whose signature does not
\* verify, or whose registered claims do not validate.
jwt_decode(token) ==
    IF token.kind = "good" THEN [ok |-> TRUE, sub |-> token.sub]
    ELSE [ok |-> FALSE, sub |-> NoSub]

\* HTTPBearer() rejects a request without a bearer token; then the token is
\* decoded.  The HTTPException(401) raised inside the try block is no
\* JWTError, so the except clause lets it through.
get_current_user(credentials) ==
    IF credentials.kind = "absent"
    THEN [ok |-> FALSE, user_id |-> NoSub, error |-> HTTPException(403, "Not authenticated")]
    ELSE LET payload == jwt_decode(credentials) IN
         IF ~payload.ok
         THEN [ok |-> FALSE, user_id |-> NoSub, error |-> HTTPException(403, "Blad autoryzacji")]
         ELSE IF payload.sub = NoSub
         THEN [ok |-> FALSE, user_id |-> NoSub, error |-> HTTPException(401, "Nieprawidlowy token")]
         ELSE [ok |-> TRUE, user_id |-> payload.sub, error |-> NoResponse]

\* ------------------------------------------- faulty forwarding (mutants)
\* The body is spread into the record after user_id is set, so that a
\* user_id of the body overrides the caller's.
add_decision_call_body_first(data, user_id) ==
    [method |-> "POST", path |-> "/rest/v1/decisions",
     user_id |-> IF data.user_id # NoSub THEN data.user_id ELSE user_id,
     filter |-> NoSub, order |-> ""]

\* The call is issued a second time.
send_twice(call) == <<call, call>>

\* ------------------------------------------------------- outbound calls
Call(method, path, user_id, filter, order) ==
    [method |-> method, path |-> path, user_id |-> user_id, filter |-> filter, order |-> order]

register_call(data) == Call("POST", "/auth/v1/signup", NoSub, NoSub, "")
login_call(data) == Call("POST", "/auth/v1/token?grant_type=password", NoSub, NoSub, "")
\* The forwarded record is built field by field: user_id is the dependency's
\* value, and a user_id of the body is not a field of Decision / FileUpload.
add_decision_call(data, user_id) == Call("POST", "/rest/v1/decisions", user_id, NoSub, "")
get_user_decisions_call(user_id) == Call("GET", "/rest/v1/decisions", NoSub, user_id, "timestamp.desc")
upload_data_call(data, user_id) == Call("POST", "/rest/v1/uploads", user_id, NoSub, "")
get_user_uploads_call(user_id) == Call("GET", "/rest/v1/uploads", NoSub, user_id, "uploaded_at.desc")

\* requests.post(...) / requests.get(...): one HTTP call, no retry.
send(call) == <<call>>

\* ------------------------------------------- what a handler answers with
\* register and login parse the upstream body on both paths.
register_response(response) ==
    IF response.status # 200
    THEN IF json(response).ok THEN HTTPException(response.status, json(response).val)
         ELSE InternalServerError
    ELSE IF json(response).ok THEN Response(200, <<json(response).val>>)
         ELSE InternalServerError

login_response(response) ==
    IF response.status # 200
    THEN IF json(response).ok THEN HTTPException(response.status, json(response).val)
         ELSE InternalServerError
    ELSE IF json(response).ok THEN Response(200, <<json(response).val>>)
         ELSE InternalServerError

get_profile(user_id) == Response(200, <<"user_id", user_id>>)

add_decision_response(response) ==
    IF response.status # 201 THEN HTTPException(response.status, response.text)
    ELSE Response(200, <<"status", "decision saved">>)

get_user_decisions_response(response) ==
    IF response.status # 200 THEN HTTPException(response.status, response.text)
    ELSE IF json(response).ok THEN Response(200, <<json(response).val>>)
    ELSE InternalServerError

upload_data_response(response) ==
    IF response.status # 201 THEN HTTPException(response.status, response.text)
    ELSE Response(200, <<"status", "upload saved">>)

get_user_uploads_response(response) ==
    IF response.status # 200 THEN HTTPException(response.status, response.text)
    ELSE IF json(response).ok THEN Response(200, <<json(response).val>>)
    ELSE InternalServerError

\* ----------------------------------------------------------------- state
Protected == {"me", "decision", "decisions", "upload", "uploads"}
Forwarding == {"register", "login", "decision", "decisions", "upload", "uploads"}

Request(ep, creds, body) ==
    [ep |-> ep, creds |-> creds, body |-> body, pc |-> "done",
     up |-> NoReply, resp |-> NoResponse]

\* The request is answered at once, with no outbound call.
Answer(req, resp) ==
    /\ reqs' = Append(reqs, [req EXCEPT !.resp = resp])
    /\ calls' = Append(calls, <<>>)

\* The handler issues its outbound call and blocks on it.
Forward(req, sent) ==
    /\ reqs' = Append(reqs, [req EXCEPT !.pc = "waiting"])
    /\ calls' = Append(calls, sent)

\* The outbound call of request i returns and the handler finishes.
Returns(i, up, resp) ==
    /\ reqs' = [reqs EXCEPT ![i].pc = "done", ![i].up = up, ![i].resp = resp]
    /\ UNCHANGED calls

Waiting(ep) == {i \in 1..Len(reqs) : reqs[i].ep = ep /\ reqs[i].pc = "waiting"}

Init ==
    /\ reqs = <<>>
    /\ calls = <<>>

\* --------------------------------------------------------------- actions
register ==
    /\ Len(reqs) < MaxReq
    /\ \E data \in AuthBodies :
        LET req == Request("register", NoCreds, data) IN
        IF ~data.valid THEN Answer(req, ValidationError)
        ELSE Forward(req, send(register_call(data)))

register_returns ==
    \E i \in Waiting("register"), up \in UpstreamReplies :
        Returns(i, up, register_response(up))

login ==
    /\ Len(reqs) < MaxReq
    /\ \E data \in AuthBodies :
        LET req == Request("login", NoCreds, data) IN
        IF ~data.valid THEN Answer(req, ValidationError)
        ELSE Forward(req, send(login_call(data)))

login_returns ==
    \E i \in Waiting("login"), up \in UpstreamReplies :
        Returns(i, up, login_response(up))

me ==
    /\ Len(reqs) < MaxReq
    /\ \E creds \in Credentials :
        LET auth == get_current_user(creds)
            req == Request("me", creds, NoBody)
        IN  IF ~auth.ok THEN Answer(req, auth.error)
            ELSE Answer(req, get_profile(auth.user_id))

\* The dependency runs before the body is validated: a request that fails
\* authorization is answered without its body being looked at.
add_decision ==
    /\ Len(reqs) < MaxReq
    /\ \E creds \in Credentials :
        LET auth == get_current_user(creds) IN
        IF ~auth.ok THEN Answer(Request("decision", creds, NoBody), auth.error)
        ELSE \E data \in RecordBodies :
            LET req == Request("decision", creds, data) IN
            IF ~data.valid THEN Answer(req, ValidationError)
            ELSE Forward(req, send(add_decision_call(data, auth.user_id)))

add_decision_returns ==
    \E i \in Waiting("decision"), up \in UpstreamReplies :
        Returns(i, up, add_decision_response(up))

get_user_decisions ==
    /\ Len(reqs) < MaxReq
    /\ \E creds \in Credentials :
        LET auth == get_current_user(creds)
            req == Request("decisions", creds, NoBody)
        IN  IF ~auth.ok THEN Answer(req, auth.error)
            ELSE Forward(req, send(get_user_decisions_call(auth.user_id)))

get_user_decisions_returns ==
    \E i \in Waiting("decisions"), up \in UpstreamReplies :
        Returns(i, up, get_user_decisions_response(up))

\* POST /analyze on the requests of S.
Analyze(S) ==
    \E data \in S :
        LET req == Request("analyze", NoCreds, data) IN
        IF ~data.valid THEN Answer(req, ValidationError)
        ELSE Answer(req, analyze_price(data))

analyze ==
    /\ Len(reqs) < MaxReq
    /\ Analyze(AnalyzeSample)

upload_data ==
    /\ Len(reqs) < MaxReq
    /\ \E creds \in Credentials :
        LET auth == get_current_user(creds) IN
        IF ~auth.ok THEN Answer(Request("upload", creds, NoBody), auth.error)
        ELSE \E data \in RecordBodies :
            LET req == Request("upload", creds, data) IN
            IF ~data.valid THEN Answer(req, ValidationError)
            ELSE Forward(req, send(upload_data_call(data, auth.user_id)))

upload_data_returns ==
    \E i \in Waiting("upload"), up \in UpstreamReplies :
        Returns(i, up, upload_data_response(up))

get_user_uploads ==
    /\ Len(reqs) < MaxReq
    /\ \E creds \in Credentials :
        LET auth == get_current_user(creds)
            req == Request("uploads", creds, NoBody)
        IN  IF ~auth.ok THEN Answer(req, auth.error)
            ELSE Forward(req, send(get_user_uploads_call(auth.user_id)))

get_user_uploads_returns ==
    \E i \in Waiting("uploads"), up \in UpstreamReplies :
        Returns(i, up, get_user_uploads_response(up))

Next ==
    \/ register \/ register_returns
    \/ login \/ login_returns
    \/ me
    \/ add_decision \/ add_decision_returns
    \/ get_user_decisions \/ get_user_decisions_returns
    \/ analyze
    \/ upload_data \/ upload_data_returns
    \/ get_user_uploads \/ get_user_uploads_returns

Spec == Init /\ [][Next]_vars

\* The classifier alone: one POST /analyze to a fresh server, over every
\* price of the grid and every thresholds mapping.
classify ==
    /\ reqs = <<>>
    /\ Analyze(AnalyzeRequests)

NextClassify == classify

SpecClassify == Init /\ [][NextClassify]_vars

\* =================================================================== claims
Ids == 1..Len(reqs)
Verified(creds) == creds.kind = "good" /\ creds.sub \in Users
SignatureVerifies(creds) == creds.kind \in {"good", "expired"}
\* The served /analyze requests, and those whose two thresholds are numbers.
Analyzed == {i \in Ids : reqs[i].ep = "analyze" /\ reqs[i].body.valid}
BuyThreshold(i) ==
    IF reqs[i].body.thresholds.buy.kind = "absent" THEN 200
    ELSE reqs[i].body.thresholds.buy.val
SellThreshold(i) ==
    IF reqs[i].body.thresholds.sell.kind = "absent" THEN 600
    ELSE reqs[i].body.thresholds.sell.val
Numeric(i) ==
    /\ reqs[i].body.thresholds.buy.kind # "str"
    /\ reqs[i].body.thresholds.sell.kind # "str"
AnalyzedNumeric == {i \in Analyzed : Numeric(i)}
ActionOf(i) ==
    IF reqs[i].resp.status = 200 /\ Len(reqs[i].resp.body) = 4 /\ reqs[i].resp.body[1] = "action"
    THEN reqs[i].resp.body[2] ELSE "none"
ReasonOf(i) ==
    IF reqs[i].resp.status = 200 /\ Len(reqs[i].resp.body) = 4 /\ reqs[i].resp.body[3] = "reason"
    THEN reqs[i].resp.body[4] ELSE "none"

\* C1: with the buy threshold thresholds['buy'] or else 200 and the sell
\* threshold thresholds['sell'] or else 600 (numbers), POST /analyze answers
\* 'buy' when price < buy threshold, else 'sell' when price > sell threshold,
\* else 'wait'; with the defaults a price below 200 gives 'buy' and one above
\* 600 gives 'sell', and a price strictly between the two thresholds gives
\* 'wait'.
C1_ThreeBranches ==
    \A i \in AnalyzedNumeric :
        LET p == reqs[i].body.price
            b == BuyThreshold(i)
            s == SellThreshold(i)
        IN  /\ ActionOf(i) = IF p < b THEN "buy" ELSE IF p > s THEN "sell" ELSE "wait"
            /\ (reqs[i].body.thresholds = NoThresholds /\ p < 200) => ActionOf(i) = "buy"
            /\ (reqs[i].body.thresholds = NoThresholds /\ p > 600) => ActionOf(i) = "sell"
            /\ (b < p /\ p < s) => ActionOf(i) = "wait"

C1_Witness ==
    \E i \in AnalyzedNumeric :
        /\ reqs[i].body.thresholds = [buy |-> Num(300), sell |-> Num(500)]
        /\ reqs[i].body.price = 400
        /\ ActionOf(i) = "wait"

\* C2 as stated: for every thresholds mapping, a price equal to the buy
\* threshold or equal to the sell threshold is classified 'wait'.
C2_BoundaryAlwaysWait ==
    \A i \in AnalyzedNumeric :
        (reqs[i].body.price = BuyThreshold(i) \/ reqs[i].body.price = SellThreshold(i))
            => ActionOf(i) = "wait"

\* C2 as amended: when the buy threshold is not above the sell threshold, a
\* price equal to the buy threshold or equal to the sell threshold is
\* classified 'wait'.
C2_BoundaryWaitWhenOrdered ==
    \A i \in AnalyzedNumeric :
        (/\ BuyThreshold(i) <= SellThreshold(i)
         /\ (reqs[i].body.price = BuyThreshold(i) \/ reqs[i].body.price = SellThreshold(i)))
            => ActionOf(i) = "wait"

C2_Witness ==
    \E i \in AnalyzedNumeric :
        /\ reqs[i].body.thresholds = NoThresholds
        /\ reqs[i].body.price = 600
        /\ ActionOf(i) = "wait"

\* C3 as stated: the reason is 'price below buy threshold' for 'buy', 'price
\* above sell threshold' for 'sell' and 'price neutral' for 'wait'.
C3_EnglishReasons ==
    \A i \in Analyzed :
        /\ ActionOf(i) = "buy" => ReasonOf(i) = "price below buy threshold"
        /\ ActionOf(i) = "sell" => ReasonOf(i) = "price above sell threshold"
        /\ ActionOf(i) = "wait" => ReasonOf(i) = "price neutral"

\* C3 as amended: the reason is fixed by the action, and it is 'Cena ponizej
\* progu zakupu' for 'buy', 'Cena powyzej progu sprzedazy' for 'sell' and
\* 'Cena neutralna' for 'wait'.
C3_ReasonFixedByAction ==
    \A i \in Analyzed :
        /\ ActionOf(i) = "buy" => ReasonOf(i) = "Cena ponizej progu zakupu"
        /\ ActionOf(i) = "sell" => ReasonOf(i) = "Cena powyzej progu sprzedazy"
        /\ ActionOf(i) = "wait" => ReasonOf(i) = "Cena neutralna"
        /\ reqs[i].resp.status = 200 => ActionOf(i) \in {"buy", "sell", "wait"}

C3_Witness ==
    \E i \in Analyzed :
        /\ reqs[i].body.thresholds = NoThresholds
        /\ reqs[i].body.price = 400
        /\ ReasonOf(i) = "Cena neutralna"

\* C4: a request to a bearer-protected endpoint that carries no token, or a
\* token that fails verification, is rejected with an authorization error and
\* no outbound call is ever issued for it.
C4_NoCallWithoutVerifiedToken ==
    \A i \in Ids :
        (reqs[i].ep \in Protected /\ ~Verified(reqs[i].creds)) =>
            /\ calls[i] = <<>>
            /\ reqs[i].pc = "done"
            /\ reqs[i].resp.status \in {401, 403}

C4_Witness ==
    \E i, j \in Ids :
        /\ reqs[i].ep = "decision" /\ reqs[i].creds.kind = "absent"
        /\ reqs[i].resp.status = 403 /\ calls[i] = <<>>
        /\ reqs[j].ep = "decision" /\ Len(calls[j]) = 1

\* C5 as stated: a token whose signature verifies but that has no subject is
\* rejected with 401, a malformed token or one with an invalid signature with
\* 403, and a token whose signature verifies and that has a subject yields
\* the subject as the caller.
C5_SignatureDecides ==
    \A i \in Ids :
        (reqs[i].ep \in Protected /\ reqs[i].creds.kind # "absent") =>
            /\ (SignatureVerifies(reqs[i].creds) /\ reqs[i].creds.sub = NoSub)
                    => reqs[i].resp.status = 401
            /\ reqs[i].creds.kind \in {"malformed", "badsig"} => reqs[i].resp.status = 403
            /\ (reqs[i].ep = "me" /\ SignatureVerifies(reqs[i].creds) /\ reqs[i].creds.sub # NoSub)
                    => reqs[i].resp = Response(200, <<"user_id", reqs[i].creds.sub>>)

\* C5 as amended: a token that jwt.decode accepts (the signature verifies and
\* the registered claims validate) but that has no subject is rejected with
\* 401; a token that jwt.decode refuses (malformed, invalid signature, or a
\* registered claim such as the expiry failing) is rejected with 403; a token
\* that jwt.decode accepts and that has a subject yields the subject as the
\* caller.  The 401 is not turned into the 403.
C5_TwoFailureOutcomes ==
    \A i \in Ids :
        (reqs[i].ep \in Protected /\ reqs[i].creds.kind # "absent") =>
            /\ (reqs[i].creds.kind = "good" /\ reqs[i].creds.sub = NoSub)
                    => reqs[i].resp = HTTPException(401, "Nieprawidlowy token")
            /\ reqs[i].creds.kind \in {"malformed", "badsig", "expired"}
                    => reqs[i].resp = HTTPException(403, "Blad autoryzacji")
            /\ (reqs[i].ep = "me" /\ reqs[i].creds.kind = "good" /\ reqs[i].creds.sub # NoSub)
                    => reqs[i].resp = Response(200, <<"user_id", reqs[i].creds.sub>>)

C5_Witness ==
    \E i, j \in Ids :
        /\ reqs[i].ep = "me" /\ reqs[i].creds = [kind |-> "good", sub |-> NoSub]
        /\ reqs[i].resp.status = 401
        /\ reqs[j].ep = "me" /\ reqs[j].creds.kind = "badsig"
        /\ reqs[j].resp.status = 403

\* C6: on every forwarding endpoint, a non-success status of the external
\* service reaches the caller as an error with that status and the upstream
\* body, and the success body is returned only on a success status.
Success(status) == status \in 200..299
Answered == {i \in Ids : reqs[i].ep \in Forwarding /\ reqs[i].pc = "done" /\ reqs[i].up # NoReply}
C6_UpstreamStatusPropagated ==
    \A i \in Answered :
        /\ ~Success(reqs[i].up.status)
                => reqs[i].resp = Response(reqs[i].up.status, <<"detail", reqs[i].up.text>>)
        /\ (reqs[i].resp.status = 200 /\ reqs[i].resp.body[1] # "detail")
                => Success(reqs[i].up.status)

\* C7: a record forwarded by POST /decision or POST /upload carries the
\* subject of the verified token of its own request as user_id, whatever the
\* body holds, and a query of GET /decisions or GET /uploads filters on the
\* subject of its own caller, under every interleaving of requests.
C7_OwnIdentityOnly ==
    \A i \in Ids : \A k \in 1..Len(calls[i]) :
        /\ reqs[i].ep \in {"decision", "upload"} =>
            /\ Verified(reqs[i].creds)
            /\ calls[i][k].user_id = reqs[i].creds.sub
        /\ reqs[i].ep \in {"decisions", "uploads"} =>
            /\ Verified(reqs[i].creds)
            /\ calls[i][k].filter = reqs[i].creds.sub

C7_Witness ==
    \E i, j \in Ids :
        /\ reqs[i].ep = "decision" /\ reqs[i].creds.sub = "u1"
        /\ reqs[i].body.user_id = "u2" /\ reqs[i].pc = "waiting"
        /\ calls[i] # <<>> /\ calls[i][1].user_id = "u1"
        /\ reqs[j].ep = "decisions" /\ reqs[j].creds.sub = "u2"
        /\ calls[j] # <<>> /\ calls[j][1].filter = "u2"

C9_InvertedThresholds ==
    \A i \in AnalyzedNumeric :
        BuyThreshold(i) > SellThreshold(i) =>
            /\ reqs[i].resp.status = 200
            /\ ActionOf(i) = IF reqs[i].body.price < BuyThreshold(i) THEN "buy" ELSE "sell"

C9_Witness ==
    \E i \in AnalyzedNumeric :
        /\ reqs[i].body.thresholds = [buy |-> Num(500), sell |-> Num(300)]
        /\ reqs[i].body.price = 400
        /\ ActionOf(i) = "buy"

\* C10: a request causes at most one outbound call and is never retried: a
\* request to a forwarding endpoint that passes validation and authorization
\* issues exactly one call whatever the upstream answers, and a request to
\* POST /analyze or GET /me issues none.
C10_OneCallPerRequest ==
    \A i \in Ids :
        /\ Len(calls[i]) <= 1
        /\ reqs[i].ep \in {"analyze", "me"} => Len(calls[i]) = 0
        /\ (/\ reqs[i].ep \in Forwarding
            /\ reqs[i].body.valid
            /\ reqs[i].ep \in Protected => Verified(reqs[i].creds))
                => Len(calls[i]) = 1

C10_Witness ==
    \E i, j \in Ids :
        /\ reqs[i].ep = "login" /\ reqs[i].pc = "done"
        /\ reqs[i].up.status = 502 /\ Len(calls[i]) = 1
        /\ reqs[j].ep = "me" /\ reqs[j].resp.status = 200 /\ Len(calls[j]) = 0

====
